---- MODULE Spec2Model ----
(***************************************************************************)
(* micromamba front end (src/src/main.cpp): the install / create / shell    *)
(* callbacks, install_specs, set_network_options, and list_packages.       *)
(*                                                                         *)
(* Paths are sequences of path components; the empty sequence is the empty *)
(* path.  The filesystem is the set of paths that exist.                   *)
(***************************************************************************)
EXTENDS Integers, Sequences, FiniteSets, TLC

\* ------------------------------------------------------------------ bounds
MaxChannels == 2    \* channels given with -c
MaxSteps == 1       \* Link steps of a Transaction Plan
MaxPkgs == 3        \* package records of an installed snapshot

\* exit statuses
EXIT_OK == 0
EXIT_FAIL == 1
EXIT_UNCAUGHT == 134
EXIT_SEGV == 139

VARIABLES
    cmd,              \* the subcommand whose callback runs: "install", "create", "shell", "list"; "net" is set_network_options alone
    pc,               \* position of the process
    exit_code,        \* exit status once the process ended, -1 before
    global_options,   \* static struct global_options
    network_options,  \* static struct network_options
    create_options,   \* static struct create_options
    shell_options,    \* static struct shell_options
    activator,        \* the shell callback's local: which Activator was made
    shell_out,        \* what the shell callback did last: the call whose result it printed
    ctx0,             \* Context::instance() when the subcommand's callback starts
    ctx,              \* Context::instance()
    fs0,              \* the filesystem when the process started
    fs,               \* the filesystem now (prefix area): set of existing paths
    certs,            \* indices of the cert_locations that exist on this machine
    create_env,       \* install_specs' parameter
    channel_urls,     \* install_specs' local
    subdirs,          \* install_specs' local: vector of MSubdirData
    multi_dl,         \* install_specs' local: indices of subdirs whose target was added
    pool,             \* install_specs' local: the MPool, a sequence of repos
    repos,            \* install_specs' local: vector<MRepo>, as indices into pool
    prio_counter,     \* install_specs' local
    loop_i,           \* position of the running for loop
    solver,           \* install_specs' local: the MSolver
    trans,            \* install_specs' local: the MTransaction
    prompt_result,    \* what trans.prompt returned: "none", "yes", "no"
    execute_called,   \* trans.execute was invoked
    env_dirs_created, \* lines 342-344 ran
    installed,        \* PrefixData::m_package_records of the target prefix
    to_visit,         \* list_packages: records the first loop has not visited yet
    ordered_packages, \* list_packages' local multimap, as a sorted sequence of pairs
    aux,              \* list_packages' local
    lp_j,             \* list_packages' local j
    rows,             \* rows added to the table t
    oob               \* a vector was indexed outside its bounds

vars == <<cmd, pc, exit_code, global_options, network_options, create_options,
          shell_options, activator, shell_out, ctx0, ctx,
          fs0, fs, certs, create_env, channel_urls, subdirs, multi_dl, pool, repos,
          prio_counter, loop_i, solver, trans, prompt_result, execute_called,
          env_dirs_created, installed, to_visit, ordered_packages, aux, lp_j, rows, oob>>

flowVars == <<create_env, channel_urls, subdirs, multi_dl, pool, repos, prio_counter,
              loop_i, solver, trans, prompt_result, execute_called, env_dirs_created>>
listVars == <<to_visit, ordered_packages, aux, lp_j, rows, oob>>
\* what install_specs, set_network_options and list_packages never write
inputVars == <<cmd, global_options, network_options, create_options, ctx0, fs0, certs,
               installed, shell_options, activator, shell_out>>

\* ------------------------------------------------------------------ paths
EmptyPath == <<>>
RootDir == <<"r">>
OtherDir == <<"t">>

\* p / "c"
Slash(p, c) == Append(p, c)

\* p and every ancestor directory of p
Ancestors(p) == {SubSeq(p, 1, k) : k \in 1..Len(p)}

\* fs::exists
Exists(files, p) == p \in files

\* fs::create_directories
CreateDirectories(files, p) == files \cup Ancestors(p)

\* ctx.root_prefix / "pkgs" / "cache"
CacheDir(root) == Slash(Slash(root, "pkgs"), "cache")

\* ------------------------------------------------------------------ channels
ChannelPool == <<"conda-forge", "bioconda", "pytorch", "r">>
ChannelNames == {ChannelPool[i] : i \in 1..MaxChannels}

\* sequences over S without repetition, of length at most n
RECURSIVE DistinctSeqs(_, _)
DistinctSeqs(S, n) ==
    IF n = 0 THEN {<<>>}
    ELSE LET shorter == DistinctSeqs(S, n - 1)
             grow == {q \in shorter \X S :
                        /\ Len(q[1]) = n - 1
                        /\ \A k \in 1..Len(q[1]) : q[1][k] # q[2]}
         IN shorter \cup {Append(q[1], q[2]) : q \in grow}

Platform == "linux-64"
ChannelAlias == "https://conda.anaconda.org"

\* make_channel(url): the Channel of a channel URL
make_channel(url) == [name |-> url.name, platform |-> url.platform, alias |-> url.alias]

\* Channel::url(true)
ChannelUrl(channel) == channel.alias \o "/" \o channel.name \o "/" \o channel.platform

\* calculate_channel_urls: one URL per configured channel, in the configured order
calculate_channel_urls(channels) ==
    [i \in 1..Len(channels) |->
        [alias |-> ChannelAlias, name |-> channels[i], platform |-> Platform]]

\* cache_fn_url: a file name that is a function of the URL
cache_fn_url(full_url) == "fn(" \o full_url \o ")"

\* the arguments install_specs gives to the MSubdirData constructor (lines 289-294)
NewSubdir(url, cache_dir) ==
    LET channel == make_channel(url)
        full_url == ChannelUrl(channel) \o "/repodata.json"
    IN [name |-> channel.name \o "/" \o channel.platform,
        url |-> full_url,
        cache_path |-> Slash(cache_dir, cache_fn_url(full_url)),
        state |-> "created"]

\* ------------------------------------------------------------------ option setters
cert_locations ==
    <<"/etc/ssl/certs/ca-certificates.crt",
      "/etc/pki/tls/certs/ca-bundle.crt",
      "/etc/ssl/ca-bundle.pem",
      "/etc/pki/tls/cacert.pem",
      "/etc/pki/ca-trust/extracted/pem/tls-ca-bundle.pem",
      "/etc/ssl/cert.pem">>

CertLocationSet == {cert_locations[k] : k \in 1..Len(cert_locations)}

\* the loop of lines 121-127, from location k on: every existing location is assigned
RECURSIVE CertLoop(_, _, _)
CertLoop(k, ssl_verify, existing) ==
    IF k > Len(cert_locations) THEN ssl_verify
    ELSE CertLoop(k + 1,
                  IF cert_locations[k] \in existing THEN cert_locations[k] ELSE ssl_verify,
                  existing)

\* set_network_options(ctx)
set_network_options_NoFallback(c, opts, existing) ==
    IF opts.ssl_verify = FALSE
    THEN [c EXCEPT !.ssl_verify = "<false>"]
    ELSE IF opts.cacert_path # ""
    THEN [c EXCEPT !.ssl_verify = opts.cacert_path]
    ELSE [c EXCEPT !.ssl_verify = CertLoop(1, c.ssl_verify, existing)]

set_network_options(c, opts, existing) ==
    IF opts.ssl_verify = FALSE
    THEN [c EXCEPT !.ssl_verify = "<false>"]
    ELSE IF opts.cacert_path # ""
    THEN [c EXCEPT !.ssl_verify = opts.cacert_path]
    ELSE LET found == CertLoop(1, c.ssl_verify, existing)
         IN [c EXCEPT !.ssl_verify = IF found = "" THEN "<false>" ELSE found]

\* set_global_options(ctx)
set_global_options(c, opts) ==
    [c EXCEPT !.verbosity = opts.verbosity, !.quiet = opts.quiet, !.json = opts.json,
              !.always_yes = opts.always_yes, !.offline = opts.offline,
              !.dry_run = opts.dry_run]

\* set_channels(ctx)
set_channels(c, opts) == [c EXCEPT !.channels = opts.channels]

\* ------------------------------------------------------------------ initial states
\* the paths the prefix area of the filesystem may hold at start
CacheFiles ==
    {NewSubdir(u, CacheDir(RootDir)).cache_path :
        u \in {calculate_channel_urls(<<c>>)[1] : c \in ChannelNames}}
PathUniverse ==
    Ancestors(CacheDir(RootDir)) \cup CacheFiles \cup {OtherDir}
AncestorClosed(S) == \A p \in S : Ancestors(p) \subseteq S
InitialFilesystems == {S \in SUBSET PathUniverse : AncestorClosed(S)}

Prefixes == {EmptyPath, RootDir, OtherDir}

GlobalOptionSets ==
    [verbosity : {0}, always_yes : BOOLEAN, quiet : {FALSE}, json : {FALSE},
     offline : BOOLEAN, dry_run : BOOLEAN]

\* the Context singleton before any callback ran
InitialContext(root, target) ==
    [root_prefix |-> root, target_prefix |-> target, ssl_verify |-> "",
     channels |-> <<>>, verbosity |-> 0, always_yes |-> FALSE, quiet |-> FALSE,
     json |-> FALSE, offline |-> FALSE, dry_run |-> FALSE]

NoSolver == [constructed |-> FALSE, jobs |-> <<>>, solved |-> FALSE, success |-> FALSE]
NoTrans == [state |-> "none", steps |-> 0, done |-> 0]

\* static struct shell_options as initialised (lines 41-48), and no Activator yet
DefaultShellOptions ==
    [hook |-> FALSE, shell_type |-> "", action |-> "", prefix |-> <<"base">>, stack |-> FALSE]
ShellInit ==
    /\ activator = "none"
    /\ shell_out = ""

FlowInit ==
    /\ create_env = FALSE
    /\ channel_urls = <<>>
    /\ subdirs = <<>>
    /\ multi_dl = {}
    /\ pool = <<>>
    /\ repos = <<>>
    /\ prio_counter = 0
    /\ loop_i = 0
    /\ solver = NoSolver
    /\ trans = NoTrans
    /\ prompt_result = "none"
    /\ execute_called = FALSE
    /\ env_dirs_created = FALSE

ListInit ==
    /\ to_visit = {}
    /\ ordered_packages = <<>>
    /\ aux = <<>>
    /\ lp_j = 0
    /\ rows = <<>>
    /\ oob = FALSE

\* micromamba install ... / micromamba create ...
InstallCreateInit ==
    /\ cmd \in {"install", "create"}
    /\ shell_options = DefaultShellOptions
    /\ ShellInit
    /\ pc = "callback"
    /\ exit_code = -1
    /\ global_options \in GlobalOptionSets
    /\ network_options \in [ssl_verify : BOOLEAN, cacert_path : {""}]
    /\ create_options \in
         [specs : {<<"foo">>},
          prefix : IF cmd = "create" THEN Prefixes ELSE {EmptyPath},
          channels : DistinctSeqs(ChannelNames, MaxChannels)]
    /\ fs0 \in InitialFilesystems
    /\ fs = fs0
    /\ certs \in {{}, {cert_locations[1]}}
    /\ \E root \in {EmptyPath, RootDir},
          target \in IF cmd = "install" THEN Prefixes ELSE {EmptyPath} :
            ctx0 = InitialContext(root, target)
    /\ ctx = ctx0
    /\ installed = {}
    /\ FlowInit
    /\ ListInit

\* ------------------------------------------------------------------ process end
\* exit(code)
Exit(code) == pc' = "exited" /\ exit_code' = code

\* an exception no frame of main.cpp catches leaves main: std::terminate
Terminate == pc' = "terminated" /\ exit_code' = EXIT_UNCAUGHT

\* ------------------------------------------------------------------ callbacks
\* the callback of the install subcommand (lines 414-418)
InstallCallback ==
    /\ cmd = "install" /\ pc = "callback"
    /\ ctx' = set_channels(set_network_options(ctx, network_options, certs), create_options)
    /\ create_env' = FALSE
    /\ pc' = "install_specs"
    /\ UNCHANGED <<exit_code, fs, channel_urls, subdirs, multi_dl, pool, repos,
                   prio_counter, loop_i, solver, trans, prompt_result, execute_called,
                   env_dirs_created>>
    /\ UNCHANGED inputVars /\ UNCHANGED listVars

\* the callback of the create subcommand (lines 431-446)
CreateCallback ==
    /\ cmd = "create" /\ pc = "callback"
    /\ LET c1 == [ctx EXCEPT !.target_prefix = create_options.prefix]
           c2 == set_channels(set_network_options(c1, network_options, certs), create_options)
       IN /\ ctx' = c2
          /\ IF Exists(fs, c2.target_prefix)
             THEN Exit(EXIT_FAIL) /\ UNCHANGED create_env
             ELSE pc' = "install_specs" /\ create_env' = TRUE /\ UNCHANGED exit_code
    /\ UNCHANGED <<fs, channel_urls, subdirs, multi_dl, pool, repos,
                   prio_counter, loop_i, solver, trans, prompt_result, execute_called,
                   env_dirs_created>>
    /\ UNCHANGED inputVars /\ UNCHANGED listVars

\* ------------------------------------------------------------------ install_specs
\* lines 244-269: the global options and the three prefix checks
CheckPrefixesNoExistsCheck ==
    /\ pc = "install_specs"
    /\ ctx' = set_global_options(ctx, global_options)
    /\ IF ctx'.root_prefix = EmptyPath THEN Exit(EXIT_FAIL)
       ELSE IF ctx'.target_prefix = EmptyPath THEN Exit(EXIT_FAIL)
       ELSE pc' = "cache_dir" /\ UNCHANGED exit_code
    /\ UNCHANGED fs
    /\ UNCHANGED flowVars /\ UNCHANGED inputVars /\ UNCHANGED listVars

CheckPrefixes ==
    /\ pc = "install_specs"
    /\ ctx' = set_global_options(ctx, global_options)
    /\ IF ctx'.root_prefix = EmptyPath THEN Exit(EXIT_FAIL)
       ELSE IF ctx'.target_prefix = EmptyPath THEN Exit(EXIT_FAIL)
       ELSE IF ~Exists(fs, ctx'.target_prefix) /\ create_env = FALSE THEN Exit(EXIT_FAIL)
       ELSE pc' = "cache_dir" /\ UNCHANGED exit_code
    /\ UNCHANGED fs
    /\ UNCHANGED flowVars /\ UNCHANGED inputVars /\ UNCHANGED listVars

\* lines 271-282: create pkgs/cache under the root prefix, then the channel URLs
CreateCacheDir ==
    /\ pc = "cache_dir"
    /\ \/ /\ fs' = CreateDirectories(fs, CacheDir(ctx.root_prefix))
          /\ channel_urls' = calculate_channel_urls(ctx.channels)
          /\ loop_i' = 1
          /\ pc' = "load_loop"
          /\ UNCHANGED exit_code
       \/ \* create_directories throws (lines 276-280); it makes the missing
          \* directories from the outermost on, those made before the throw stay
          /\ \E made \in 0..(Len(CacheDir(ctx.root_prefix)) - 1) :
                fs' = CreateDirectories(fs, SubSeq(CacheDir(ctx.root_prefix), 1, made))
          /\ Exit(EXIT_FAIL)
          /\ UNCHANGED <<channel_urls, loop_i>>
    /\ UNCHANGED <<ctx, create_env, subdirs, multi_dl, pool, repos, prio_counter, solver,
                   trans, prompt_result, execute_called, env_dirs_created>>
    /\ UNCHANGED inputVars /\ UNCHANGED listVars

\* MSubdirData::load(): offline is cache-or-fail; otherwise a (conditional) fetch is
\* queued as the subdir's download target
SubdirLoad(sd, files, offline) ==
    IF offline
    THEN IF Exists(files, sd.cache_path) THEN "loaded" ELSE "failed"
    ELSE "pending"

\* lines 287-299: one iteration of the loop over channel_urls.  load() (line 296) runs
\* before multi_dl.add (297) and subdirs.push_back (298): a load that fails leaves
\* install_specs at line 296, with neither done.
LoadSubdir ==
    /\ pc = "load_loop"
    /\ loop_i <= Len(channel_urls)
    /\ LET sd == NewSubdir(channel_urls[loop_i], CacheDir(ctx.root_prefix))
           st == SubdirLoad(sd, fs, ctx.offline)
       IN IF st = "failed"
          THEN /\ Terminate
               /\ UNCHANGED <<subdirs, multi_dl, loop_i>>
          ELSE /\ multi_dl' = IF st = "pending" THEN multi_dl \cup {loop_i} ELSE multi_dl
               /\ subdirs' = Append(subdirs, [sd EXCEPT !.state = st])
               /\ loop_i' = loop_i + 1
               /\ UNCHANGED <<pc, exit_code>>
    /\ UNCHANGED <<ctx, fs, create_env, channel_urls, pool, repos, prio_counter, solver,
                   trans, prompt_result, execute_called, env_dirs_created>>
    /\ UNCHANGED inputVars /\ UNCHANGED listVars

\* line 300: multi_dl.download(true) is called once the loop is over
CallDownloadSkipped ==
    /\ pc = "load_loop"
    /\ loop_i > Len(channel_urls)
    /\ pc' = "prefix_data"
    /\ UNCHANGED <<exit_code, ctx, fs>>
    /\ UNCHANGED flowVars /\ UNCHANGED inputVars /\ UNCHANGED listVars

CallDownload ==
    /\ pc = "load_loop"
    /\ loop_i > Len(channel_urls)
    /\ pc' = "downloading"
    /\ UNCHANGED <<exit_code, ctx, fs>>
    /\ UNCHANGED flowVars /\ UNCHANGED inputVars /\ UNCHANGED listVars

Pending == {i \in multi_dl : subdirs[i].state = "pending"}

\* MultiDownloadTarget::download(true), one target finishing: not modified (the cache
\* entry is parsed), a full response (persisted to the cache, then parsed), or a fetch
\* failure (fall back to the cache entry if there is one, else the batch is aborted)
TargetFinishes ==
    /\ pc = "downloading"
    /\ \E i \in Pending, response \in {"not_modified", "full", "error"} :
         LET sd == subdirs[i]
             cached == Exists(fs, sd.cache_path)
         IN /\ response = "not_modified" => cached
            /\ fs' = IF response = "full" THEN fs \cup {sd.cache_path} ELSE fs
            /\ IF response = "error" /\ ~cached
               THEN /\ subdirs' = [subdirs EXCEPT ![i].state = "failed"]
                    /\ Terminate
               ELSE /\ subdirs' = [subdirs EXCEPT ![i].state = "loaded"]
                    /\ UNCHANGED <<pc, exit_code>>
    /\ UNCHANGED <<ctx, create_env, channel_urls, multi_dl, pool, repos, prio_counter,
                   loop_i, solver, trans, prompt_result, execute_called, env_dirs_created>>
    /\ UNCHANGED inputVars /\ UNCHANGED listVars

\* MultiDownloadTarget::download(true) returns when no target is left
DownloadReturns ==
    /\ pc = "downloading"
    /\ Pending = {}
    /\ pc' = "prefix_data"
    /\ UNCHANGED <<exit_code, ctx, fs>>
    /\ UNCHANGED flowVars /\ UNCHANGED inputVars /\ UNCHANGED listVars

\* priority and subpriority of a Repo nobody called set_priority on
DefaultPriority == 0

\* MRepo(pool, prefix_data)
InstalledRepo ==
    [kind |-> "installed", subdir |-> 0, loaded |-> TRUE,
     priority |-> DefaultPriority, subpriority |-> DefaultPriority]

\* MSubdirData::create_repo(pool)
create_repo(i, sd) ==
    [kind |-> "channel", subdir |-> i, loaded |-> sd.state = "loaded",
     priority |-> DefaultPriority, subpriority |-> DefaultPriority]

\* MRepo::set_priority
set_priority(repo, priority, subpriority) ==
    [repo EXCEPT !.priority = priority, !.subpriority = subpriority]

\* lines 302-309: the pool, the installed repo, and prio_counter
LoadPrefixDataOffByOne ==
    /\ pc = "prefix_data"
    /\ pool' = <<InstalledRepo>>
    /\ repos' = <<1>>
    /\ prio_counter' = Len(subdirs) - 1
    /\ loop_i' = 1
    /\ pc' = "repo_loop"
    /\ UNCHANGED <<exit_code, ctx, fs, create_env, channel_urls, subdirs, multi_dl, solver,
                   trans, prompt_result, execute_called, env_dirs_created>>
    /\ UNCHANGED inputVars /\ UNCHANGED listVars

LoadPrefixData ==
    /\ pc = "prefix_data"
    /\ pool' = <<InstalledRepo>>
    /\ repos' = <<1>>
    /\ prio_counter' = Len(subdirs)
    /\ loop_i' = 1
    /\ pc' = "repo_loop"
    /\ UNCHANGED <<exit_code, ctx, fs, create_env, channel_urls, subdirs, multi_dl, solver,
                   trans, prompt_result, execute_called, env_dirs_created>>
    /\ UNCHANGED inputVars /\ UNCHANGED listVars

\* lines 310-315: one iteration of the loop over subdirs
CreateRepoNoDecrement ==
    /\ pc = "repo_loop"
    /\ loop_i <= Len(subdirs)
    /\ pool' = Append(pool, set_priority(create_repo(loop_i, subdirs[loop_i]), prio_counter, 0))
    /\ repos' = Append(repos, Len(pool) + 1)
    /\ prio_counter' = prio_counter
    /\ loop_i' = loop_i + 1
    /\ UNCHANGED <<pc, exit_code, ctx, fs, create_env, channel_urls, subdirs, multi_dl,
                   solver, trans, prompt_result, execute_called, env_dirs_created>>
    /\ UNCHANGED inputVars /\ UNCHANGED listVars

CreateRepo ==
    /\ pc = "repo_loop"
    /\ loop_i <= Len(subdirs)
    /\ pool' = Append(pool, set_priority(create_repo(loop_i, subdirs[loop_i]), prio_counter, 0))
    /\ repos' = Append(repos, Len(pool) + 1)
    /\ prio_counter' = prio_counter - 1
    /\ loop_i' = loop_i + 1
    /\ UNCHANGED <<pc, exit_code, ctx, fs, create_env, channel_urls, subdirs, multi_dl,
                   solver, trans, prompt_result, execute_called, env_dirs_created>>
    /\ UNCHANGED inputVars /\ UNCHANGED listVars

\* lines 317-318: MSolver solver(pool, ...); solver.add_jobs(specs, SOLVER_INSTALL)
ConstructSolver ==
    /\ pc = "repo_loop"
    /\ loop_i > Len(subdirs)
    /\ solver' = [constructed |-> TRUE, jobs |-> create_options.specs,
                  solved |-> FALSE, success |-> FALSE]
    /\ pc' = "solve"
    /\ UNCHANGED <<exit_code, ctx, fs, create_env, channel_urls, subdirs, multi_dl, pool,
                   repos, prio_counter, loop_i, trans, prompt_result, execute_called,
                   env_dirs_created>>
    /\ UNCHANGED inputVars /\ UNCHANGED listVars

\* MSolver::solve(): the Jobs are satisfiable or they are not
SolveOutcomes == BOOLEAN

\* line 319: solver.solve(); what it returns is not looked at
Solve ==
    /\ pc = "solve"
    /\ \E success \in SolveOutcomes :
         solver' = [solver EXCEPT !.solved = TRUE, !.success = success]
    /\ pc' = "transaction"
    /\ UNCHANGED <<exit_code, ctx, fs, create_env, channel_urls, subdirs, multi_dl, pool,
                   repos, prio_counter, loop_i, trans, prompt_result, execute_called,
                   env_dirs_created>>
    /\ UNCHANGED inputVars /\ UNCHANGED listVars

\* lines 321-333: the package caches and the MTransaction built from the solver
BuildTransactionSkipsPrompt ==
    /\ pc = "transaction"
    /\ \E n \in 0..MaxSteps : trans' = [state |-> "planned", steps |-> n, done |-> 0]
    /\ pc' = "create_env"
    /\ UNCHANGED <<exit_code, ctx, fs, create_env, channel_urls, subdirs, multi_dl, pool,
                   repos, prio_counter, loop_i, solver, prompt_result, execute_called,
                   env_dirs_created>>
    /\ UNCHANGED inputVars /\ UNCHANGED listVars

BuildTransaction ==
    /\ pc = "transaction"
    /\ \E n \in 0..MaxSteps : trans' = [state |-> "planned", steps |-> n, done |-> 0]
    /\ pc' = "prompt"
    /\ UNCHANGED <<exit_code, ctx, fs, create_env, channel_urls, subdirs, multi_dl, pool,
                   repos, prio_counter, loop_i, solver, prompt_result, execute_called,
                   env_dirs_created>>
    /\ UNCHANGED inputVars /\ UNCHANGED listVars

\* MTransaction::prompt: what it may return.  Always-yes auto-accepts; otherwise either
\* answer may come back, in dry-run mode too (how the library answers a skipped
\* question is not fixed here, so both values are allowed).
PromptAnswers(c) == IF c.always_yes THEN {TRUE} ELSE BOOLEAN

\* MTransaction::prompt: the state of the Transaction after it returned yes
AfterPrompt(t, c, yes) ==
    IF yes /\ ~c.dry_run THEN [t EXCEPT !.state = "confirmed"] ELSE t

\* lines 335-338: bool yes = trans.prompt(...); if (!yes) exit(0);
PromptIgnoresAnswer ==
    /\ pc = "prompt"
    /\ \E yes \in PromptAnswers(ctx) :
         /\ prompt_result' = IF yes THEN "yes" ELSE "no"
         /\ trans' = AfterPrompt(trans, ctx, yes)
         /\ pc' = "create_env" /\ UNCHANGED exit_code
    /\ UNCHANGED <<ctx, fs, create_env, channel_urls, subdirs, multi_dl, pool, repos,
                   prio_counter, loop_i, solver, execute_called, env_dirs_created>>
    /\ UNCHANGED inputVars /\ UNCHANGED listVars

Prompt ==
    /\ pc = "prompt"
    /\ \E yes \in PromptAnswers(ctx) :
         /\ prompt_result' = IF yes THEN "yes" ELSE "no"
         /\ trans' = AfterPrompt(trans, ctx, yes)
         /\ IF ~yes
            THEN Exit(EXIT_OK)
            ELSE pc' = "create_env" /\ UNCHANGED exit_code
    /\ UNCHANGED <<ctx, fs, create_env, channel_urls, subdirs, multi_dl, pool, repos,
                   prio_counter, loop_i, solver, execute_called, env_dirs_created>>
    /\ UNCHANGED inputVars /\ UNCHANGED listVars

\* the three create_directories calls of lines 342-344
TargetDirs(target) == {target, Slash(target, "conda-meta"), Slash(target, "pkgs")}
CreateTargetDirs(files, target) ==
    CreateDirectories(
        CreateDirectories(CreateDirectories(files, target), Slash(target, "conda-meta")),
        Slash(target, "pkgs"))

\* the first `made` of the three calls
CreateFirstTargetDirs(files, target, made) ==
    IF made = 0 THEN files
    ELSE IF made = 1 THEN CreateDirectories(files, target)
    ELSE CreateDirectories(CreateDirectories(files, target), Slash(target, "conda-meta"))

CreateEnvDirsAlways ==
    /\ pc = "create_env"
    /\ IF create_env
       THEN \/ /\ fs' = CreateTargetDirs(fs, ctx.target_prefix)
               /\ env_dirs_created' = TRUE
               /\ pc' = "execute" /\ UNCHANGED exit_code
            \/ \E made \in 0..2 :
                 /\ fs' = CreateFirstTargetDirs(fs, ctx.target_prefix, made)
                 /\ env_dirs_created' = (made > 0)
                 /\ Terminate
       ELSE /\ UNCHANGED <<fs, env_dirs_created>>
            /\ pc' = "execute" /\ UNCHANGED exit_code
    /\ UNCHANGED <<ctx, create_env, channel_urls, subdirs, multi_dl, pool, repos,
                   prio_counter, loop_i, solver, trans, prompt_result, execute_called>>
    /\ UNCHANGED inputVars /\ UNCHANGED listVars

\* lines 340-345; the calls are in no try block: one that throws ends the process, the
\* directories made before it stay
CreateEnvDirs ==
    /\ pc = "create_env"
    /\ IF create_env /\ ~ctx.dry_run
       THEN \/ /\ fs' = CreateTargetDirs(fs, ctx.target_prefix)
               /\ env_dirs_created' = TRUE
               /\ pc' = "execute" /\ UNCHANGED exit_code
            \/ \E made \in 0..2 :
                 /\ fs' = CreateFirstTargetDirs(fs, ctx.target_prefix, made)
                 /\ env_dirs_created' = (made > 0)
                 /\ Terminate
       ELSE /\ UNCHANGED <<fs, env_dirs_created>>
            /\ pc' = "execute" /\ UNCHANGED exit_code
    /\ UNCHANGED <<ctx, create_env, channel_urls, subdirs, multi_dl, pool, repos,
                   prio_counter, loop_i, solver, trans, prompt_result, execute_called>>
    /\ UNCHANGED inputVars /\ UNCHANGED listVars

\* line 347: trans.execute(prefix_data, ...) is invoked.  MTransaction::execute runs no
\* step in dry-run mode; install_specs, the callback and main then return.
Execute ==
    /\ pc = "execute"
    /\ execute_called' = TRUE
    /\ IF ctx.dry_run
       THEN /\ pc' = "exited" /\ exit_code' = EXIT_OK
            /\ UNCHANGED trans
       ELSE /\ pc' = "executing" /\ UNCHANGED exit_code
            /\ trans' = [trans EXCEPT !.state = "executing"]
    /\ UNCHANGED <<ctx, fs, create_env, channel_urls, subdirs, multi_dl, pool, repos,
                   prio_counter, loop_i, solver, prompt_result, env_dirs_created>>
    /\ UNCHANGED inputVars /\ UNCHANGED listVars

\* the snapshot entry a Link step appends: <target>/conda-meta/<package>.json
SnapshotEntry(target, k) == Slash(Slash(target, "conda-meta"), "pkg-" \o ToString(k) \o ".json")

\* MTransaction::execute, one Link step: it links and records the package, or it fails
\* and the remaining plan is aborted
ExecStep ==
    /\ pc = "executing"
    /\ trans.done < trans.steps
    /\ \/ /\ fs' = fs \cup Ancestors(SnapshotEntry(ctx.target_prefix, trans.done + 1))
          /\ trans' = [trans EXCEPT !.done = trans.done + 1]
          /\ UNCHANGED <<pc, exit_code>>
       \/ /\ trans' = [trans EXCEPT !.state = "aborted"]
          /\ Terminate
          /\ UNCHANGED fs
    /\ UNCHANGED <<ctx, create_env, channel_urls, subdirs, multi_dl, pool, repos,
                   prio_counter, loop_i, solver, prompt_result, execute_called,
                   env_dirs_created>>
    /\ UNCHANGED inputVars /\ UNCHANGED listVars

\* MTransaction::execute returns after the last step; install_specs, the callback and
\* main return
ExecDone ==
    /\ pc = "executing"
    /\ trans.done = trans.steps
    /\ trans' = [trans EXCEPT !.state = "completed"]
    /\ pc' = "exited" /\ exit_code' = EXIT_OK
    /\ UNCHANGED <<ctx, fs, create_env, channel_urls, subdirs, multi_dl, pool, repos,
                   prio_counter, loop_i, solver, prompt_result, execute_called,
                   env_dirs_created>>
    /\ UNCHANGED inputVars /\ UNCHANGED listVars

\* ------------------------------------------------------------------ shell subcommand
ShellTypes == {"bash", "zsh", "cmd.exe", "powershell", "xonsh", "fish"}
ShellActions == {"init", "hook", "activate", "reactivate", "deactivate", ""}

\* lines 185-207: the Activator of a shell type, "none" where the callback exits
ActivatorOf(shell_type) ==
    IF shell_type \in {"bash", "zsh"} THEN "PosixActivator"
    ELSE IF shell_type = "cmd.exe" THEN "CmdExeActivator"
    ELSE IF shell_type = "powershell" THEN "PowerShellActivator"
    ELSE IF shell_type = "xonsh" THEN "XonshActivator"
    ELSE "none"

\* micromamba shell ...
ShellCmdInit ==
    /\ cmd = "shell"
    /\ pc = "callback"
    /\ exit_code = -1
    /\ global_options \in [verbosity : {0}, always_yes : {FALSE}, quiet : {FALSE},
                           json : {FALSE}, offline : {FALSE}, dry_run : {FALSE}]
    /\ network_options = [ssl_verify |-> TRUE, cacert_path |-> ""]
    /\ create_options = [specs |-> <<>>, prefix |-> EmptyPath, channels |-> <<>>]
    /\ shell_options \in [hook : {FALSE}, shell_type : ShellTypes, action : ShellActions,
                          prefix : {<<"base">>, RootDir, OtherDir}, stack : BOOLEAN]
    /\ ShellInit
    /\ fs0 = {RootDir}
    /\ fs = fs0
    /\ certs = {}
    /\ \E root \in {EmptyPath, RootDir} : ctx0 = InitialContext(root, EmptyPath)
    /\ ctx = ctx0
    /\ installed = {}
    /\ FlowInit
    /\ ListInit

\* the callback of the shell subcommand (lines 184-238); main returns 0 after it
ShellCallback ==
    /\ cmd = "shell" /\ pc = "callback"
    /\ activator' = ActivatorOf(shell_options.shell_type)
    /\ IF activator' = "none"
       THEN /\ shell_out' = "allowed values"
            /\ Exit(EXIT_FAIL)
            /\ UNCHANGED <<ctx, shell_options>>
       ELSE IF shell_options.action = "init"
       THEN /\ shell_out' = "init_shell"
            /\ Exit(EXIT_OK)
            /\ UNCHANGED <<ctx, shell_options>>
       ELSE IF shell_options.action = "hook"
       THEN /\ ctx' = [ctx EXCEPT !.root_prefix = shell_options.prefix]
            /\ shell_out' = "hook"
            /\ Exit(EXIT_OK)
            /\ UNCHANGED shell_options
       ELSE IF shell_options.action = "activate"
       THEN /\ shell_options' =
                 IF shell_options.prefix = <<"base">>
                 THEN [shell_options EXCEPT !.prefix = ctx.root_prefix]
                 ELSE shell_options
            /\ shell_out' = "activate"
            /\ Exit(EXIT_OK)
            /\ UNCHANGED ctx
       ELSE IF shell_options.action \in {"reactivate", "deactivate"}
       THEN /\ shell_out' = shell_options.action
            /\ Exit(EXIT_OK)
            /\ UNCHANGED <<ctx, shell_options>>
       ELSE /\ shell_out' = "need an action"
            /\ Exit(EXIT_FAIL)
            /\ UNCHANGED <<ctx, shell_options>>
    /\ UNCHANGED <<cmd, global_options, network_options, create_options, ctx0, fs0, certs,
                   installed, fs>>
    /\ UNCHANGED flowVars /\ UNCHANGED listVars

Init == InstallCreateInit \/ ShellCmdInit

Next ==
    \/ ShellCallback
    \/ InstallCallback
    \/ CreateCallback
    \/ CheckPrefixes
    \/ CreateCacheDir
    \/ LoadSubdir
    \/ CallDownload
    \/ TargetFinishes
    \/ DownloadReturns
    \/ LoadPrefixData
    \/ CreateRepo
    \/ ConstructSolver
    \/ Solve
    \/ BuildTransaction
    \/ Prompt
    \/ CreateEnvDirs
    \/ Execute
    \/ ExecStep
    \/ ExecDone

Spec == Init /\ [][Next]_vars

\* ------------------------------------------------------------------ properties of install_specs
\* the target prefix the invocation works on
EffectiveTarget == IF cmd = "create" THEN create_options.prefix ELSE ctx0.target_prefix

ChannelRepos == {k \in 1..Len(pool) : pool[k].kind = "channel"}

\* the order of Repo priorities the Solver applies (libsolv): the Repo with the larger
\* priority is preferred, the subpriority breaks ties
Preferred(a, b) ==
    \/ a.priority > b.priority
    \/ a.priority = b.priority /\ a.subpriority > b.subpriority

\* what the run may write before the Transaction executes: pkgs/cache under the root
\* prefix with its ancestors, and the metadata cache files of the subdirs
MetadataPaths ==
    Ancestors(CacheDir(ctx0.root_prefix)) \cup {subdirs[i].cache_path : i \in 1..Len(subdirs)}

\* C1: no channel Repo is created and no Solver constructed before every Subdir Index
\* of every configured channel URL has finished loading; the Solver's Pool holds only
\* fully loaded Repos.
C1_LoadsCompleteBeforeSolver ==
    (ChannelRepos # {} \/ solver.constructed) =>
        /\ Len(subdirs) = Len(create_options.channels)
        /\ \A i \in 1..Len(subdirs) : subdirs[i].state = "loaded"
        /\ \A k \in 1..Len(pool) : pool[k].loaded

C1_Witness ==
    /\ solver.solved
    /\ Len(subdirs) >= 2
    /\ Cardinality(multi_dl) >= 2
    /\ fs # fs0

\* C2 as claimed: after a decline nothing was written to disk and trans.execute was not
\* called.
C2_DeclineWritesNothing ==
    (prompt_result = "no" /\ pc = "exited") => (fs = fs0 /\ ~execute_called)

\* C2 amended: after a decline the process exits with status 0, trans.execute is not
\* called, the Transaction stays Planned and the create branch's directories are not
\* made; all the run wrote is pkgs/cache under the root prefix (with its ancestors) and
\* metadata cache files.
C2_DeclineLeavesOnlyMetadata ==
    prompt_result = "no" =>
        /\ pc = "exited" /\ exit_code = EXIT_OK
        /\ ~execute_called
        /\ ~env_dirs_created
        /\ trans.state = "planned" /\ trans.done = 0
        /\ fs \ fs0 \subseteq MetadataPaths

C2_Witness ==
    /\ prompt_result = "no"
    /\ pc = "exited"
    /\ cmd = "create"
    /\ fs # fs0

\* C3: once solve() has failed, no Transaction is built, prompted for or executed and
\* nothing more is written.
C3_FailedSolveIsFatal ==
    (solver.solved /\ ~solver.success) =>
        /\ trans.state = "none"
        /\ prompt_result = "none"
        /\ ~execute_called
        /\ ~env_dirs_created

\* a missing or invalid root or target environment
RootMissing == ctx0.root_prefix = EmptyPath
TargetMissing == EffectiveTarget = EmptyPath
InstallTargetAbsent == cmd = "install" /\ ~Exists(fs0, EffectiveTarget)
CreateTargetPresent == cmd = "create" /\ Exists(fs0, EffectiveTarget)
ConfigInvalid ==
    /\ cmd \in {"install", "create"}
    /\ RootMissing \/ TargetMissing \/ InstallTargetAbsent \/ CreateTargetPresent

\* C4: with a missing or invalid root or target environment the process writes nothing,
\* fetches nothing, solves nothing, builds no Transaction, and its only exit is with a
\* nonzero status from the checks.
C4_ConfigErrorIsFatal ==
    ConfigInvalid =>
        /\ pc \in {"callback", "install_specs", "exited"}
        /\ pc = "exited" => exit_code # EXIT_OK
        /\ fs = fs0
        /\ subdirs = <<>> /\ multi_dl = {}
        /\ ~solver.constructed
        /\ trans.state = "none" /\ prompt_result = "none" /\ ~execute_called

C4_Witness ==
    /\ pc = "exited"
    /\ InstallTargetAbsent
    /\ ~RootMissing /\ ~TargetMissing
    /\ exit_code = EXIT_FAIL

\* C5 as claimed: in dry-run mode trans.execute is never invoked and no directory of the
\* target environment (prefix, conda-meta, pkgs) is created.
C5_DryRunNeverCallsExecute ==
    global_options.dry_run =>
        /\ ~execute_called
        /\ (TargetDirs(EffectiveTarget) \cap fs) \subseteq fs0

\* C5 amended: in dry-run mode the Transaction never leaves Planned, no step runs and the
\* directory creation of the create branch is skipped, so all the run writes is
\* pkgs/cache under the root prefix (with its ancestors) and metadata cache files;
\* trans.execute is still called when trans.prompt returned true.
C5_DryRunStaysPlanned ==
    global_options.dry_run =>
        /\ trans.state \in {"none", "planned"} /\ trans.done = 0
        /\ ~env_dirs_created
        /\ fs \ fs0 \subseteq MetadataPaths
        /\ pc = "exited" /\ prompt_result = "yes" => execute_called

C5_Witness ==
    /\ global_options.dry_run
    /\ cmd = "create"
    /\ execute_called
    /\ pc = "exited"
    /\ trans.steps > 0

\* C6: the Repo of an earlier channel URL is preferred over the Repo of every later one,
\* the priorities are pairwise distinct and every subpriority is 0; once the Solver is
\* constructed every channel URL has its Repo.
C6_ChannelPriorityFollowsPosition ==
    /\ \A k \in ChannelRepos : pool[k].subpriority = 0
    /\ \A k1, k2 \in ChannelRepos :
         pool[k1].subdir < pool[k2].subdir =>
            /\ Preferred(pool[k1], pool[k2])
            /\ pool[k1].priority # pool[k2].priority
    /\ solver.constructed =>
         \A i \in 1..Len(channel_urls) : \E k \in ChannelRepos : pool[k].subdir = i

C6_Witness ==
    /\ solver.constructed
    /\ Cardinality(ChannelRepos) >= 2

\* C7: when the Solver is reached the installed Repo is in the Pool, was registered
\* before every channel Repo, and every channel Repo is strictly preferred over it.
C7_InstalledRepoIsLowest ==
    (solver.constructed \/ ChannelRepos # {}) =>
        /\ Len(pool) >= 1 /\ pool[1].kind = "installed"
        /\ Len(repos) >= 1 /\ repos[1] = 1
        /\ \A k \in ChannelRepos : k > 1 /\ Preferred(pool[k], pool[1])

C7_Witness ==
    /\ solver.constructed
    /\ ChannelRepos # {}

\* C8: execution and the creation of the target directories come only after the
\* Transaction was built from a solve and trans.prompt returned yes; steps run only in a
\* Transaction that was confirmed.
C8_ExecuteOnlyAfterConfirm ==
    /\ (execute_called \/ env_dirs_created \/ pc \in {"create_env", "execute", "executing"}) =>
          /\ solver.solved
          /\ trans.state # "none"
          /\ prompt_result = "yes"
    /\ trans.state \in {"confirmed", "executing", "completed", "aborted"} =>
          /\ prompt_result = "yes"
          /\ ~ctx.dry_run
    /\ trans.state \in {"none", "planned", "confirmed"} => trans.done = 0

C8_Witness ==
    /\ trans.state = "completed"
    /\ trans.done >= 1
    /\ env_dirs_created

\* ------------------------------------------------------------------ set_network_options alone
\* the options and machines set_network_options may meet
NetInit ==
    /\ cmd = "net"
    /\ shell_options = DefaultShellOptions
    /\ ShellInit
    /\ pc = "callback"
    /\ exit_code = -1
    /\ global_options \in [verbosity : {0}, always_yes : {FALSE}, quiet : {FALSE},
                           json : {FALSE}, offline : {FALSE}, dry_run : {FALSE}]
    /\ network_options \in [ssl_verify : BOOLEAN, cacert_path : {"", "/user/ca.pem"}]
    /\ create_options = [specs |-> <<>>, prefix |-> EmptyPath, channels |-> <<>>]
    /\ fs0 = {}
    /\ fs = fs0
    /\ certs \in SUBSET CertLocationSet
    /\ \E earlier \in {"", "/earlier/ca.pem"} :
         ctx0 = [InitialContext(RootDir, RootDir) EXCEPT !.ssl_verify = earlier]
    /\ ctx = ctx0
    /\ installed = {}
    /\ FlowInit
    /\ ListInit

\* set_network_options(Context::instance()) as the callbacks call it (lines 415, 435)
CallSetNetworkOptions ==
    /\ cmd = "net" /\ pc = "callback"
    /\ ctx' = set_network_options(ctx, network_options, certs)
    /\ pc' = "returned"
    /\ UNCHANGED <<exit_code, fs>>
    /\ UNCHANGED flowVars /\ UNCHANGED inputVars /\ UNCHANGED listVars

NetNext == CallSetNetworkOptions

SpecNet == NetInit /\ [][NetNext]_vars

\* C10: after set_network_options, ctx.ssl_verify is not empty; it is "<false>" when
\* verification is disabled; else the given cacert_path when there is one; else an
\* existing well-known location when there is one; and it is "<false>" only when
\* verification is disabled, or no location exists and no earlier value was set.
C10_SslVerifyPrecedence ==
    pc = "returned" =>
        LET r == ctx.ssl_verify
            opts == network_options
        IN /\ r # ""
           /\ ~opts.ssl_verify => r = "<false>"
           /\ (opts.ssl_verify /\ opts.cacert_path # "") => r = opts.cacert_path
           /\ (opts.ssl_verify /\ opts.cacert_path = "" /\ certs # {}) => r \in certs
           /\ r = "<false>" =>
                \/ ~opts.ssl_verify
                \/ opts.cacert_path = "" /\ certs = {} /\ ctx0.ssl_verify = ""
           /\ (opts.ssl_verify /\ opts.cacert_path = "" /\ certs = {}
                 /\ ctx0.ssl_verify # "") => r = ctx0.ssl_verify

C10_Witness ==
    /\ pc = "returned"
    /\ network_options.ssl_verify
    /\ network_options.cacert_path = ""
    /\ Cardinality(certs) >= 2
    /\ ctx.ssl_verify \in certs
    /\ ctx0.ssl_verify # ""

\* ------------------------------------------------------------------ list_packages
\* package names, in alphabetical order; std::less<std::string> on them
NamePool == <<"attrs", "numpy", "python", "zlib">>
PkgNames == {NamePool[i] : i \in 1..MaxPkgs}
NameIndex(n) == CHOOSE i \in 1..Len(NamePool) : NamePool[i] = n
NameLess(a, b) == NameIndex(a) < NameIndex(b)

\* channel URLs of package records, as the sequence of their "/" and the text between
DefaultsChannel ==
    <<"https:", "/", "/", "repo.anaconda.com", "/", "pkgs", "/", "main", "/", "linux-64">>
ForgeChannel ==
    <<"https:", "/", "/", "conda.anaconda.org", "/", "conda-forge", "/", "linux-64">>
DefaultsPrefix == <<"https:", "/", "/", "repo.anaconda.com", "/", "pkgs", "/">>

\* channel.find(prefix) == 0
StartsWith(str, prefix) ==
    /\ Len(str) >= Len(prefix)
    /\ SubSeq(str, 1, Len(prefix)) = prefix

\* split(str, "/"): the pieces between the separators, empty pieces kept
RECURSIVE SplitFrom(_, _, _, _, _)
SplitFrom(str, sep, k, piece, acc) ==
    IF k > Len(str) THEN Append(acc, piece)
    ELSE IF str[k] = sep THEN SplitFrom(str, sep, k + 1, "", Append(acc, piece))
    ELSE SplitFrom(str, sep, k + 1, piece \o str[k], acc)
split(str, sep) == SplitFrom(str, sep, 1, "", <<>>)

PackageRecords ==
    [name : PkgNames, version : {"1.0"}, build_string : {"h0_0"},
     channel : {DefaultsChannel, ForgeChannel}]

\* PrefixData::m_package_records: at most one record per name
Snapshots ==
    {S \in SUBSET PackageRecords :
        \A a, b \in S : a.name = b.name => a = b}

\* the channel column of lines 368-376
ChannelColumn(package) ==
    IF StartsWith(package.channel, DefaultsPrefix) THEN ""
    ELSE split(package.channel, "/")[3 + 1]

\* std::multimap::insert: after the last entry whose key is not greater
MultimapInsert(mm, key, value) ==
    LET before == SelectSeq(mm, LAMBDA e : ~NameLess(key, e[1]))
        after == SelectSeq(mm, LAMBDA e : NameLess(key, e[1]))
    IN before \o <<(<<key, value>>)>> \o after

\* the four inserts of one iteration of lines 362-377
InsertPackage(mm, package) ==
    MultimapInsert(
        MultimapInsert(
            MultimapInsert(
                MultimapInsert(mm, package.name, package.name),
                package.name, package.version),
            package.name, package.build_string),
        package.name, ChannelColumn(package))

\* the values of equal_range(key), in order
EqualRangeValues(mm, key) ==
    LET range == SelectSeq(mm, LAMBDA e : e[1] = key)
    IN [i \in 1..Len(range) |-> range[i][2]]

\* lines 388-396: from entry p on, push the values of the entry's key, advance by 4
RECURSIVE AuxLoop(_, _, _)
AuxLoop(mm, p, acc) ==
    IF p > Len(mm) THEN acc
    ELSE AuxLoop(mm, p + 4, acc \o EqualRangeValues(mm, mm[p][1]))

\* j < (aux.size() - 4), compared as size_t (64 bits): for size < 4 the difference wraps
\* to 2^64 - (4 - size), above every int j >= 0
UnsignedLessSizeMinus4(j, size) ==
    IF size >= 4 THEN j < size - 4 ELSE TRUE

\* the rows list_packages is to print: one per record, in alphabetical order of name
RECURSIVE SortedRows(_)
SortedRows(S) ==
    IF S = {} THEN <<>>
    ELSE LET first == CHOOSE a \in S : \A b \in S : ~NameLess(b.name, a.name)
         IN <<(<<first.name, first.version, first.build_string, ChannelColumn(first)>>)>>
            \o SortedRows(S \ {first})

\* micromamba list
ListInit0 ==
    /\ cmd = "list"
    /\ shell_options = DefaultShellOptions
    /\ ShellInit
    /\ pc = "callback"
    /\ exit_code = -1
    /\ global_options \in [verbosity : {0}, always_yes : {FALSE}, quiet : {FALSE},
                           json : {FALSE}, offline : {FALSE}, dry_run : {FALSE}]
    /\ network_options = [ssl_verify |-> TRUE, cacert_path |-> ""]
    /\ create_options = [specs |-> <<>>, prefix |-> EmptyPath, channels |-> <<>>]
    /\ fs0 = {RootDir}
    /\ fs = fs0
    /\ certs = {}
    /\ ctx0 = InitialContext(RootDir, RootDir)
    /\ ctx = ctx0
    /\ installed \in Snapshots
    /\ FlowInit
    /\ ListInit

\* the callback of the list subcommand (lines 457-459) and lines 353-359
ListStart ==
    /\ cmd = "list" /\ pc = "callback"
    /\ to_visit' = installed
    /\ pc' = "lp_collect"
    /\ UNCHANGED <<ordered_packages, aux, lp_j, rows, oob>>
    /\ UNCHANGED <<exit_code, ctx, fs>>
    /\ UNCHANGED flowVars /\ UNCHANGED inputVars

\* lines 362-377: one iteration; the order of m_package_records is unspecified
ListCollect ==
    /\ pc = "lp_collect"
    /\ \E package \in to_visit :
         /\ ordered_packages' = InsertPackage(ordered_packages, package)
         /\ to_visit' = to_visit \ {package}
    /\ UNCHANGED <<aux, lp_j, rows, oob>>
    /\ UNCHANGED <<pc, exit_code, ctx, fs>>
    /\ UNCHANGED flowVars /\ UNCHANGED inputVars

\* lines 380-397: the table, the loop that fills aux, and j = 0
ListFillAux ==
    /\ pc = "lp_collect"
    /\ to_visit = {}
    /\ aux' = AuxLoop(ordered_packages, 1, <<>>)
    /\ lp_j' = 0
    /\ pc' = "lp_rows"
    /\ UNCHANGED <<to_visit, ordered_packages, rows, oob>>
    /\ UNCHANGED <<exit_code, ctx, fs>>
    /\ UNCHANGED flowVars /\ UNCHANGED inputVars

\* lines 398-402: one iteration of the while loop.  Reading aux outside its bounds is
\* undefined: the process dies (of SIGSEGV, or of SIGABRT in a build with assertions),
\* or reads something and goes on.
ListAddRow ==
    /\ pc = "lp_rows"
    /\ UnsignedLessSizeMinus4(lp_j, Len(aux))
    /\ IF lp_j + 3 < Len(aux)
       THEN /\ rows' = Append(rows, <<aux[lp_j + 1], aux[lp_j + 2], aux[lp_j + 3], aux[lp_j + 4]>>)
            /\ lp_j' = lp_j + 4
            /\ UNCHANGED <<pc, exit_code, oob>>
       ELSE /\ oob' = TRUE
            /\ \/ /\ pc' = "terminated"
                  /\ exit_code' \in {EXIT_UNCAUGHT, EXIT_SEGV}
                  /\ UNCHANGED <<rows, lp_j>>
               \/ /\ lp_j < 4 * MaxPkgs
                  /\ rows' = Append(rows, <<"?", "?", "?", "?">>)
                  /\ lp_j' = lp_j + 4
                  /\ UNCHANGED <<pc, exit_code>>
    /\ UNCHANGED <<to_visit, ordered_packages, aux>>
    /\ UNCHANGED <<ctx, fs>>
    /\ UNCHANGED flowVars /\ UNCHANGED inputVars

\* line 403: the loop is over, the table is printed; the callback and main return
ListPrint ==
    /\ pc = "lp_rows"
    /\ ~UnsignedLessSizeMinus4(lp_j, Len(aux))
    /\ pc' = "exited" /\ exit_code' = EXIT_OK
    /\ UNCHANGED listVars
    /\ UNCHANGED <<ctx, fs>>
    /\ UNCHANGED flowVars /\ UNCHANGED inputVars

ListNext ==
    \/ ListStart
    \/ ListCollect
    \/ ListFillAux
    \/ ListAddRow
    \/ ListPrint

SpecList == ListInit0 /\ [][ListNext]_vars

\* C9: list_packages adds exactly one row per installed package, the (name, version,
\* build, channel) of the packages in alphabetical order of name, and reads no vector
\* outside its bounds.
C9_OneRowPerPackage ==
    (cmd = "list" /\ pc \in {"exited", "terminated"}) =>
        /\ ~oob
        /\ pc = "exited"
        /\ rows = SortedRows(installed)

====
